---------------------------- MODULE Spec2Model ----------------------------
(***************************************************************************)
(* A model of ppify (src/src/main.rs): the run of main as a state machine. *)
(*                                                                         *)
(* Numbers.  PP values are whole numbers of pp.  The f64 arithmetic of     *)
(* weighted_total_pp is modelled exactly, as fixed-point numbers with      *)
(* FracLimbs limbs of base 20^3 behind the point: 0.95^i = 19^i / 20^i is  *)
(* exact at this scale for every rank below Window.  The rounding of f64   *)
(* (relative error 2^-53 per operation) is not modelled.                   *)
(***************************************************************************)
EXTENDS Integers, Sequences, FiniteSets, TLC

\* pc is the position of main, err the error main returned; the others are
\* the local variables of main, Unset until main binds them
\* raw_texts holds the texts the prompts of the score reader returned (acc_raw
\* of read_simple_score, raw of read_u32 and read_optional_u32), in order
VARIABLES pc, err, api_mode, map_id, selected, mod_bits, score_input_mode,
          raw_texts, accuracy, combo_opt, counts_opt, perf, new_play_pp,
          current_scores, current_pps, old_total_pp, new_total_pp, gain

vars == <<pc, err, api_mode, map_id, selected, mod_bits, score_input_mode,
          raw_texts, accuracy, combo_opt, counts_opt, perf, new_play_pp,
          current_scores, current_pps, old_total_pp, new_total_pp, gain>>

Unset == "Unset"

\* Option<T>: None is the empty sequence, Some(v) the sequence of v alone
None == <<>>
Some(v) == <<v>>
IsSome(o) == Len(o) = 1
Unwrap(o) == o[1]

Min(a, b) == IF a <= b THEN a ELSE b

-----------------------------------------------------------------------------
(***************************************************************************)
(* Exact fixed-point arithmetic standing for f64.                          *)
(***************************************************************************)

\* .take(100)
Window == 100
\* 0.95_f64 = WeightNum / WeightDen
WeightNum == 19
WeightDen == 20

Base == WeightDen * WeightDen * WeightDen
FracLimbs == (Window - 1) \div 3
NLimbs == FracLimbs + 2

\* A number is a sequence of NLimbs limbs, least significant first; limb
\* FracLimbs + 1 holds the units.
FromInt(n) ==
    [j \in 1..NLimbs |-> IF j = FracLimbs + 1 THEN n % Base
                         ELSE IF j = FracLimbs + 2 THEN n \div Base
                         ELSE 0]

Zero == FromInt(0)
One == FromInt(1)

(***************************************************************************)
(* The passes over the limbs split the index range in halves, and each     *)
(* operator evaluates its operands on entry (Known), so that the           *)
(* evaluation stays shallow.                                               *)
(***************************************************************************)
Known(v) == v = v

RECURSIVE CarryRange(_, _, _, _)
\* raw limbs lo..hi (each below 2^31) brought back below Base, low to high:
\* the limbs and the carry out
CarryRange(raw, lo, hi, cin) ==
    IF Known(cin) /\ lo = hi
    THEN [limbs |-> <<(raw[lo] + cin) % Base>>,
          carry |-> (raw[lo] + cin) \div Base]
    ELSE LET cmid == (lo + hi) \div 2
             clow == CarryRange(raw, lo, cmid, cin)
             chigh == CarryRange(raw, cmid + 1, hi, clow.carry)
         IN  [limbs |-> clow.limbs \o chigh.limbs, carry |-> chigh.carry]

Normalize(raw) ==
    IF Known(raw) THEN CarryRange(raw, 1, NLimbs, 0).limbs ELSE raw

MulSmall(a, m) == Normalize([k \in 1..NLimbs |-> a[k] * m])

Add(a, b) == Normalize([k \in 1..NLimbs |-> a[k] + b[k]])

RECURSIVE DivRange(_, _, _, _, _)
\* long division of limbs lo..hi by a small d, high to low, rin the
\* remainder coming in from above: the limbs and the remainder out
DivRange(x, d, lo, hi, rin) ==
    IF Known(rin) /\ lo = hi
    THEN [limbs |-> <<(rin * Base + x[lo]) \div d>>,
          rem   |-> (rin * Base + x[lo]) % d]
    ELSE LET dmid  == (lo + hi) \div 2
             dhigh == DivRange(x, d, dmid + 1, hi, rin)
             dlow  == DivRange(x, d, lo, dmid, dhigh.rem)
         IN  [limbs |-> dlow.limbs \o dhigh.limbs, rem |-> dlow.rem]

DivSmall(x, d) ==
    IF Known(x) THEN DivRange(x, d, 1, NLimbs, 0).limbs ELSE x

\* -1, 0, 1 as x is below, equal to, above y: the highest differing limb decides
Cmp(x, y) ==
    LET differ == {j \in 1..NLimbs : x[j] # y[j]}
    IN  IF differ = {} THEN 0
        ELSE LET top == CHOOSE j \in differ : \A i \in differ : i <= j
             IN  IF x[top] < y[top] THEN -1 ELSE 1

RECURSIVE BorrowRange(_, _, _, _, _)
\* x - y over limbs lo..hi, low to high: the limbs and the borrow out
BorrowRange(x, y, lo, hi, bin) ==
    IF Known(bin) /\ lo = hi
    THEN [limbs  |-> <<(x[lo] - y[lo] - bin + Base) % Base>>,
          borrow |-> IF x[lo] - y[lo] - bin < 0 THEN 1 ELSE 0]
    ELSE LET bmid  == (lo + hi) \div 2
             blow  == BorrowRange(x, y, lo, bmid, bin)
             bhigh == BorrowRange(x, y, bmid + 1, hi, blow.borrow)
         IN  [limbs |-> blow.limbs \o bhigh.limbs, borrow |-> bhigh.borrow]

\* y - x: the difference taken the wrong way round
RevSub(x, y) ==
    LET rc == Cmp(y, x)
    IN  IF ~(Known(x) /\ Known(y)) THEN [sign |-> 0, mag |-> x]
        ELSE [sign |-> rc,
              mag  |-> IF rc >= 0 THEN BorrowRange(y, x, 1, NLimbs, 0).limbs
                       ELSE BorrowRange(x, y, 1, NLimbs, 0).limbs]

\* x - y as a signed number: sign in {-1, 0, 1} and magnitude
Sub(x, y) ==
    LET sc == Cmp(x, y)
    IN  IF ~(Known(x) /\ Known(y)) THEN [sign |-> 0, mag |-> x]
        ELSE [sign |-> sc,
              mag  |-> IF sc >= 0 THEN BorrowRange(x, y, 1, NLimbs, 0).limbs
                       ELSE BorrowRange(y, x, 1, NLimbs, 0).limbs]

RECURSIVE DivPow10(_, _)
DivPow10(x, k) == IF Known(x) /\ k = 0 THEN x ELSE DivPow10(DivSmall(x, 10), k - 1)

\* the decimal n / 10^k, exact because 10 divides 20
Dec(n, k) == DivPow10(FromInt(n), k)

-----------------------------------------------------------------------------
(***************************************************************************)
(* weighted_total_pp and the sort of main.                                 *)
(***************************************************************************)

\* w * 0.9: a weight other than 0.95
Mul90(w) == DivSmall(MulSmall(w, 9), 10)

\* w * 0.95
Mul95(w) == DivSmall(MulSmall(w, WeightNum), WeightDen)

RECURSIVE PowRange(_, _, _)
\* <<0.95^lo, ..., 0.95^hi>>, given w = 0.95^lo
PowRange(w, lo, hi) ==
    IF Known(w) /\ lo = hi THEN <<w>>
    ELSE LET pmid  == (lo + hi) \div 2
             pleft == PowRange(w, lo, pmid)
         IN  pleft \o PowRange(Mul95(pleft[Len(pleft)]), pmid + 1, hi)

Pow95Table == PowRange(One, 0, Window - 1)

\* 0.95_f64.powi(i)
Powi95(i) == Pow95Table[i + 1]

RECURSIVE SumTerms(_, _, _, _)
\* limb j of the sum of pps[k] * 0.95^(k-1) over the ranks k in lo..hi
SumTerms(pps, lo, hi, j) ==
    IF lo > hi THEN 0
    ELSE IF lo = hi THEN pps[lo] * Powi95(lo - 1)[j]
    ELSE LET smid == (lo + hi) \div 2
         IN  SumTerms(pps, lo, smid, j) + SumTerms(pps, smid + 1, hi, j)

\* the sum over every value, for lists that fit the window
TakeAllTotal(pps) ==
    Normalize([j \in 1..NLimbs |-> SumTerms(pps, 1, Len(pps), j)])

\* a window one value short
TakeShortTotal(pps) ==
    Normalize([j \in 1..NLimbs |-> SumTerms(pps, 1, Min(Len(pps), Window - 1), j)])

\* pps.iter().take(100).enumerate().map(|(i, pp)| pp * 0.95^i).sum()
WeightedTotalPp(pps) ==
    Normalize([j \in 1..NLimbs |-> SumTerms(pps, 1, Min(Len(pps), Window), j)])

\* descending merge of two descending runs; the left run wins ties (stable):
\* each value goes to the place its rank in the merged run gives it
Merge(l, r) ==
    LET posl == [i \in 1..Len(l) |->
                    i + Cardinality({j \in 1..Len(r) : r[j] > l[i]})]
        posr == [j \in 1..Len(r) |->
                    j + Cardinality({i \in 1..Len(l) : l[i] >= r[j]})]
        froml == {posl[i] : i \in 1..Len(l)}
    IN  <<>> \o [p \in 1..(Len(l) + Len(r)) |->
                    IF p \in froml
                    THEN l[CHOOSE i \in 1..Len(l) : posl[i] = p]
                    ELSE r[CHOOSE j \in 1..Len(r) : posr[j] = p]]

RECURSIVE MergeSortDesc(_)
MergeSortDesc(s) ==
    IF Len(s) <= 1 THEN s
    ELSE LET half == Len(s) \div 2
         IN  Merge(MergeSortDesc(SubSeq(s, 1, half)),
                   MergeSortDesc(SubSeq(s, half + 1, Len(s))))

\* the list left as it came
NoSort(s) == s

\* an ascending sort
SortAsc(s) ==
    LET d == MergeSortDesc(s)
    IN  [i \in 1..Len(s) |-> d[Len(s) + 1 - i]]

\* v.sort_by(|a, b| b.partial_cmp(a).unwrap()): a stable descending sort
SortDesc(s) == MergeSortDesc(s)

-----------------------------------------------------------------------------
(***************************************************************************)
(* The modifier catalog and read_mods_for_mode.                            *)
(***************************************************************************)

\* rosu_v2 GameMode; every option of read_mode pairs a mode with the
\* rosu_pp mode of the same name, so one value stands for both
Modes == {"Osu", "Taiko", "Catch", "Mania"}
ALL_MODES == Modes

\* the width of the u32 mask
U32_BITS == 32
\* bit 31 is beyond the 32-bit integers of TLC; no catalog entry sets it
BitPositions == 0..(U32_BITS - 2)

\* const fn b(bit)
b(bit) == 2 ^ bit

\* bit k of n
Bit(n, k) == (n \div (2 ^ k)) % 2 = 1

\* the two masks added up
Plus(x, y) == x + y

RECURSIVE BitOr(_, _)
\* x | y
BitOr(x, y) ==
    IF x = 0 THEN y
    ELSE IF y = 0 THEN x
    ELSE (IF x % 2 = 1 \/ y % 2 = 1 THEN 1 ELSE 0)
         + 2 * BitOr(x \div 2, y \div 2)

ModOptionDef(acronym, bits, modes) ==
    [acronym |-> acronym, bits |-> bits, modes |-> modes]

MODS_LAZER == <<
    ModOptionDef("EZ", b(1), ALL_MODES),
    ModOptionDef("NF", b(0), ALL_MODES),
    ModOptionDef("HT", b(8), ALL_MODES),
    ModOptionDef("DC", 0, ALL_MODES),
    ModOptionDef("NR", 0, {"Mania"}),
    ModOptionDef("HR", b(4), ALL_MODES),
    ModOptionDef("SD", b(5), ALL_MODES),
    ModOptionDef("PF", BitOr(b(5), b(14)), ALL_MODES),
    ModOptionDef("DT", b(6), ALL_MODES),
    ModOptionDef("NC", BitOr(b(6), b(9)), ALL_MODES),
    ModOptionDef("HD", b(3), ALL_MODES),
    ModOptionDef("FI", 0, {"Mania"}),
    ModOptionDef("CO", 0, ALL_MODES),
    ModOptionDef("FL", b(10), {"Osu", "Catch", "Mania"}),
    ModOptionDef("BL", 0, {"Osu", "Catch", "Mania"}),
    ModOptionDef("ST", 0, {"Taiko"}),
    ModOptionDef("AC", 0, ALL_MODES),
    ModOptionDef("AT", b(7), ALL_MODES),
    ModOptionDef("AP", b(9), {"Osu"}),
    ModOptionDef("CN", 0, {"Osu", "Catch"}),
    ModOptionDef("RL", 0, {"Osu", "Catch"}),
    ModOptionDef("RX", 0, {"Osu", "Catch"}),
    ModOptionDef("TD", 0, {"Osu"}),
    ModOptionDef("SO", b(12), {"Osu"}),
    ModOptionDef("DA", 0, ALL_MODES),
    ModOptionDef("TC", 0, {"Osu"}),
    ModOptionDef("WI", 0, {"Osu"}),
    ModOptionDef("CL", 0, {"Osu", "Taiko"}),
    ModOptionDef("RD", 0, {"Mania"}),
    ModOptionDef("MR", 0, {"Mania"}),
    ModOptionDef("ATC", 0, ALL_MODES),
    ModOptionDef("1K", 0, {"Mania"}),
    ModOptionDef("2K", 0, {"Mania"}),
    ModOptionDef("3K", 0, {"Mania"}),
    ModOptionDef("4K", b(15), {"Mania"}),
    ModOptionDef("5K", b(16), {"Mania"}),
    ModOptionDef("6K", b(17), {"Mania"}),
    ModOptionDef("7K", b(18), {"Mania"}),
    ModOptionDef("8K", b(19), {"Mania"}),
    ModOptionDef("9K", b(24), {"Mania"})
>>

\* every entry is on offer
AnyMode(m, mode) == TRUE

\* the filter of line 777: m.modes.contains(&mode)
ModeOffered(m, mode) == mode \in m.modes

\* the catalog entries the MultiSelect offers for the mode, by catalog index
Offered(mode) ==
    {i \in 1..Len(MODS_LAZER) : ModeOffered(MODS_LAZER[i], mode)}

RECURSIVE FoldBits(_, _, _)
\* for m in selected { bits |= m.bits }, from entry k on
FoldBits(sel, k, bits) ==
    IF bits < 0 \/ k > Len(sel) THEN bits
    ELSE FoldBits(sel, k + 1, BitOr(bits, MODS_LAZER[sel[k]].bits))

\* selections of up to MaxSel entries, in any order, repeats included
MaxSel == 2
Selections(mode) == UNION {[1..n -> Offered(mode)] : n \in 0..MaxSel}

-----------------------------------------------------------------------------
(***************************************************************************)
(* Text input and its parsing.  A text is a sequence of characters; the    *)
(* parsers are those of the standard library behind str::parse.            *)
(***************************************************************************)

\* what Input::run hands back when the prompt fails
ReadError == <<"Err">>

WhiteSpace == {" ", "\t"}
DigitChars == <<"0", "1", "2", "3", "4", "5", "6", "7", "8", "9">>
IsDigit(c) == \E i \in 1..Len(DigitChars) : DigitChars[i] = c
DigitVal(c) == (CHOOSE i \in 1..Len(DigitChars) : DigitChars[i] = c) - 1
AllDigits(t) == \A i \in 1..Len(t) : IsDigit(t[i])

UpperChars == <<"A", "B", "C", "D", "E", "F", "G", "H", "I", "J", "K", "L", "M",
                "N", "O", "P", "Q", "R", "S", "T", "U", "V", "W", "X", "Y", "Z">>
LowerChars == <<"a", "b", "c", "d", "e", "f", "g", "h", "i", "j", "k", "l", "m",
                "n", "o", "p", "q", "r", "s", "t", "u", "v", "w", "x", "y", "z">>
ToLower(c) ==
    IF \E i \in 1..Len(UpperChars) : UpperChars[i] = c
    THEN LowerChars[CHOOSE i \in 1..Len(UpperChars) : UpperChars[i] = c]
    ELSE c
Lowered(t) == [i \in 1..Len(t) |-> ToLower(t[i])]

\* str::trim
Trim(t) ==
    LET keep == {i \in 1..Len(t) : t[i] \notin WhiteSpace}
    IN  IF keep = {} THEN <<>>
        ELSE SubSeq(t, CHOOSE i \in keep : \A k \in keep : i <= k,
                       CHOOSE i \in keep : \A k \in keep : i >= k)

\* a u32 of this many digits cannot overflow; the texts considered are not
\* longer, and a longer one is taken for an overflow
SafeDigits == (U32_BITS * 3) \div 10

RECURSIVE DigitsVal(_, _, _)
\* the number the digits t[k..] continue acc to
DigitsVal(t, k, acc) ==
    IF acc < 0 \/ k > Len(t) THEN acc
    ELSE DigitsVal(t, k + 1, acc * 10 + DigitVal(t[k]))

ParseOk(v) == [ok |-> TRUE, val |-> v]
ParseErr == [ok |-> FALSE, val |-> 0]

\* str::parse::<u32>: an optional +, then one digit or more
ParseU32(t) ==
    LET d == IF t # <<>> /\ t[1] = "+" THEN Tail(t) ELSE t
    IN  IF d = <<>> \/ ~AllDigits(d) \/ Len(d) > SafeDigits THEN ParseErr
        ELSE ParseOk(DigitsVal(d, 1, 0))

\* an f64: NaN, an infinity, or the finite number (-1)^neg * num / 10^scale
F64(kind, neg, num, scale) ==
    [kind |-> kind, neg |-> neg, num |-> num, scale |-> scale]
IsFinite(v) == v.kind = "finite"

\* Digit+ | Digit+ '.' Digit* | Digit* '.' Digit+ , then an optional exponent
\* 'e' Sign? Digit+
ParseDecimal(neg, body) ==
    LET epos  == {i \in 1..Len(body) : body[i] \in {"e", "E"}}
        ecut  == IF epos = {} THEN Len(body) + 1
                 ELSE CHOOSE i \in epos : \A k \in epos : i <= k
        mant  == SubSeq(body, 1, ecut - 1)
        etext == SubSeq(body, ecut + 1, Len(body))
        eneg  == etext # <<>> /\ etext[1] = "-"
        edig  == IF etext # <<>> /\ etext[1] \in {"+", "-"} THEN Tail(etext) ELSE etext
        dots  == {i \in 1..Len(mant) : mant[i] = "."}
        dot   == IF dots = {} THEN Len(mant) + 1 ELSE CHOOSE i \in dots : TRUE
        whole == SubSeq(mant, 1, dot - 1)
        frac  == SubSeq(mant, dot + 1, Len(mant))
        expo  == IF epos = {} THEN 0
                 ELSE IF eneg THEN 0 - DigitsVal(edig, 1, 0) ELSE DigitsVal(edig, 1, 0)
    IN  IF \/ Cardinality(dots) > 1
           \/ ~AllDigits(whole) \/ ~AllDigits(frac)
           \/ Len(whole) + Len(frac) = 0
           \/ Len(whole) + Len(frac) > SafeDigits
           \/ (epos # {} /\ (edig = <<>> \/ ~AllDigits(edig)))
           \/ Len(edig) > 1    \* the exponents considered have one digit
        THEN ParseErr
        ELSE ParseOk(F64("finite", neg, DigitsVal(whole \o frac, 1, 0), Len(frac) - expo))

\* str::parse::<f64>: Sign? ( 'inf' | 'infinity' | 'nan' | Number ), the
\* words in any case
ParseF64(t) ==
    LET signed == t # <<>> /\ t[1] \in {"+", "-"}
        neg    == t # <<>> /\ t[1] = "-"
        body   == IF signed THEN Tail(t) ELSE t
        word   == Lowered(body)
    IN  IF word \in {<<"i", "n", "f">>, <<"i", "n", "f", "i", "n", "i", "t", "y">>}
        THEN ParseOk(F64("inf", neg, 0, 0))
        ELSE IF word = <<"n", "a", "n">> THEN ParseOk(F64("nan", neg, 0, 0))
        ELSE ParseDecimal(neg, body)

\* the result of a read: a value, or the error to return
Ok(v) == [ok |-> TRUE, val |-> v, err |-> <<>>]
Err(msg) == [ok |-> FALSE, val |-> <<>>, err |-> msg]

\* read_u32, raw what Input::run returned
ReadU32(label, raw) ==
    IF raw = ReadError THEN Err(<<"failed to read", label>>)
    ELSE IF ParseU32(Trim(raw)).ok THEN Ok(ParseU32(Trim(raw)).val)
    ELSE Err(<<label, "must be an unsigned integer">>)

\* a reader of the optional number that answers "absent" for a text that is
\* no number instead of rejecting it
ReadOptionalU32OrNone(label, raw) ==
    IF raw # ReadError /\ ParseU32(Trim(raw)).ok
    THEN Ok(Some(ParseU32(Trim(raw)).val))
    ELSE Ok(None)

\* read_optional_u32
ReadOptionalU32(label, raw) ==
    IF raw = ReadError THEN Err(<<"failed to read", label>>)
    ELSE IF Trim(raw) = <<>> THEN Ok(None)
    ELSE IF ParseU32(Trim(raw)).ok THEN Ok(Some(ParseU32(Trim(raw)).val))
    ELSE Err(<<label, "must be an unsigned integer">>)

-----------------------------------------------------------------------------
(***************************************************************************)
(* The judgement input and the calculator.                                 *)
(***************************************************************************)

COMBO_LABEL == "Combo (optional)"

\* the prompts of read_detailed_judgements, in the order they are read
CountLabels(mode) ==
    CASE mode = "Osu" ->
             <<"Number of 300s", "Number of 100s", "Number of 50s",
               "Number of misses">>
      [] mode = "Taiko" ->
             <<"Number of GREATs (300)", "Number of GOODs (100)",
               "Number of misses">>
      [] mode = "Catch" ->
             <<"Fruits caught", "Droplets caught", "Tiny droplets caught",
               "Tiny droplet misses", "Fruit+droplet misses">>
      [] mode = "Mania" ->
             <<"Number of 320s (MAX)", "Number of 300s", "Number of 200s",
               "Number of 100s", "Number of 50s", "Number of misses">>

\* enum DetailedJudgements, built from the counts in the order read
DetailedJudgements(mode, n) ==
    CASE mode = "Osu" ->
             [variant |-> "Osu", n300 |-> n[1], n100 |-> n[2], n50 |-> n[3],
              misses |-> n[4]]
      [] mode = "Taiko" ->
             [variant |-> "Taiko", n300 |-> n[1], n100 |-> n[2], misses |-> n[3]]
      [] mode = "Catch" ->
             [variant |-> "Catch", fruits |-> n[1], droplets |-> n[2],
              tiny_droplets |-> n[3], tiny_droplet_misses |-> n[4],
              misses |-> n[5]]
      [] mode = "Mania" ->
             [variant |-> "Mania", n320 |-> n[1], n300 |-> n[2], n200 |-> n[3],
              n100 |-> n[4], n50 |-> n[5], misses |-> n[6]]

\* the triple (accuracy, combo_opt, counts_opt) a reader returns
ScoreInput(acc, combo, counts) ==
    [accuracy |-> acc, combo |-> combo, counts |-> counts]

\* a Simple result that carries detailed counts as well
SimpleWithCounts(acc, misses, combo) ==
    ScoreInput(Some(<<acc, misses>>), combo,
               Some(DetailedJudgements("Osu", <<0, 0, 0, misses>>)))

\* line 309: Ok((Some((accuracy, misses)), combo, None))
SimpleScore(acc, misses, combo) ==
    ScoreInput(Some(<<acc, misses>>), combo, None)

\* read_simple_score on the three texts the prompts return
ReadSimpleScore(acc_raw, misses_raw, combo_raw) ==
    LET acc    == ParseF64(Trim(acc_raw))
        misses == ReadU32("Number of misses", misses_raw)
        combo  == ReadOptionalU32(COMBO_LABEL, combo_raw)
    IN  IF acc_raw = ReadError THEN Err(<<"failed to read accuracy">>)
        ELSE IF ~acc.ok THEN Err(<<"accuracy must be a floating number like 98.5">>)
        ELSE IF ~misses.ok THEN Err(misses.err)
        ELSE IF ~combo.ok THEN Err(combo.err)
        ELSE Ok(SimpleScore(acc.val, misses.val, combo.val))

\* read_detailed_judgements on the texts the prompts return: the counts of
\* the mode in turn, then the combo; the first bad one is the error
ReadDetailedJudgements(mode, raws, combo_raw) ==
    LET labels == CountLabels(mode)
        read   == [i \in 1..Len(labels) |-> ReadU32(labels[i], raws[i])]
        bad    == {i \in 1..Len(labels) : ~read[i].ok}
        combo  == ReadOptionalU32(COMBO_LABEL, combo_raw)
    IN  IF bad # {} THEN Err(read[CHOOSE i \in bad : \A k \in bad : i <= k].err)
        ELSE IF ~combo.ok THEN Err(combo.err)
        ELSE Ok(ScoreInput(None, combo.val,
                    Some(DetailedJudgements(mode, [i \in 1..Len(labels) |-> read[i].val]))))

\* the texts the prompts of read_simple_score return before it returns: a
\* `?` on a bad text leaves the function, so the later prompts never run
PromptedSimple(acc_raw, misses_raw, combo_raw) ==
    IF acc_raw = ReadError \/ ~ParseF64(Trim(acc_raw)).ok THEN <<acc_raw>>
    ELSE IF ~ReadU32("Number of misses", misses_raw).ok THEN <<acc_raw, misses_raw>>
    ELSE <<acc_raw, misses_raw, combo_raw>>

\* the texts the prompts of read_detailed_judgements return before it returns
PromptedDetailed(mode, raws, combo_raw) ==
    LET labels == CountLabels(mode)
        bad    == {i \in 1..Len(labels) : ~ReadU32(labels[i], raws[i]).ok}
    IN  IF bad # {} THEN SubSeq(raws, 1, CHOOSE i \in bad : \A k \in bad : i <= k)
        ELSE Append(raws, combo_raw)

\* the calculator under construction: the mods, the mode, and the optional
\* fields its builder methods set
Performance(mods, mode) ==
    [mods |-> mods, mode |-> mode, combo |-> None, accuracy |-> None,
     misses |-> None, n300 |-> None, n100 |-> None, n50 |-> None,
     n_geki |-> None, n_katu |-> None, large_tick_hits |-> None,
     small_tick_hits |-> None]

JudgementFields ==
    {"accuracy", "misses", "n300", "n100", "n50", "n_geki", "n_katu",
     "large_tick_hits", "small_tick_hits"}

\* the Catch droplets and tiny droplets taken for each other
ApplySwappedTicks(p, d) ==
    CASE d.variant = "Osu" ->
             [p EXCEPT !.n300 = Some(d.n300), !.n100 = Some(d.n100),
                       !.n50 = Some(d.n50), !.misses = Some(d.misses)]
      [] d.variant = "Taiko" ->
             [p EXCEPT !.n300 = Some(d.n300), !.n100 = Some(d.n100),
                       !.misses = Some(d.misses)]
      [] d.variant = "Catch" ->
             [p EXCEPT !.n300 = Some(d.fruits),
                       !.large_tick_hits = Some(d.tiny_droplets),
                       !.small_tick_hits = Some(d.droplets),
                       !.n_katu = Some(d.tiny_droplet_misses),
                       !.misses = Some(d.misses)]
      [] d.variant = "Mania" ->
             [p EXCEPT !.n_geki = Some(d.n320), !.n300 = Some(d.n300),
                       !.n_katu = Some(d.n200), !.n100 = Some(d.n100),
                       !.n50 = Some(d.n50), !.misses = Some(d.misses)]

\* apply_detailed_judgements
ApplyDetailedJudgements(p, d) ==
    CASE d.variant = "Osu" ->
             [p EXCEPT !.n300 = Some(d.n300), !.n100 = Some(d.n100),
                       !.n50 = Some(d.n50), !.misses = Some(d.misses)]
      [] d.variant = "Taiko" ->
             [p EXCEPT !.n300 = Some(d.n300), !.n100 = Some(d.n100),
                       !.misses = Some(d.misses)]
      [] d.variant = "Catch" ->
             [p EXCEPT !.n300 = Some(d.fruits),
                       !.large_tick_hits = Some(d.droplets),
                       !.small_tick_hits = Some(d.tiny_droplets),
                       !.n_katu = Some(d.tiny_droplet_misses),
                       !.misses = Some(d.misses)]
      [] d.variant = "Mania" ->
             [p EXCEPT !.n_geki = Some(d.n320), !.n300 = Some(d.n300),
                       !.n_katu = Some(d.n200), !.n100 = Some(d.n100),
                       !.n50 = Some(d.n50), !.misses = Some(d.misses)]

\* lines 107-119: the calculator main hands to calculate
BuildPerformance(mods, mode, acc, combo, counts) ==
    LET base  == Performance(mods, mode)
        combd == IF IsSome(combo) THEN [base EXCEPT !.combo = combo] ELSE base
    IN  IF IsSome(counts) THEN ApplyDetailedJudgements(combd, Unwrap(counts))
        ELSE IF IsSome(acc)
             THEN [combd EXCEPT !.accuracy = Some(Unwrap(acc)[1]),
                                !.misses = Some(Unwrap(acc)[2])]
        ELSE combd

-----------------------------------------------------------------------------
(***************************************************************************)
(* The steps of main up to the calculator.  The steps that read input      *)
(* take the set their input is drawn from.                                 *)
(***************************************************************************)

\* main returns the error at this step
Fail(msg) == pc' = "failed" /\ err' = msg

\* lines 60-73: credentials, client, username
Setup ==
    /\ pc = "start"
    /\ \/ pc' = "read_mode" /\ UNCHANGED err
       \/ Fail(<<"failed to create osu! api v2 client">>)
       \/ Fail(<<"failed to read username">>)
    /\ UNCHANGED <<raw_texts, api_mode, map_id, selected, mod_bits, score_input_mode,
                   accuracy, combo_opt, counts_opt, perf, new_play_pp,
                   current_scores, current_pps, old_total_pp, new_total_pp, gain>>

\* line 75
ReadMode ==
    /\ pc = "read_mode"
    /\ \/ /\ \E mode \in Modes : api_mode' = mode
          /\ pc' = "read_map_id"
          /\ UNCHANGED err
       \/ /\ Fail(<<"Failed to read gamemode from selection">>)
          /\ UNCHANGED api_mode
    /\ UNCHANGED <<raw_texts, map_id, selected, mod_bits, score_input_mode,
                   accuracy, combo_opt, counts_opt, perf, new_play_pp,
                   current_scores, current_pps, old_total_pp, new_total_pp, gain>>

\* lines 77-86
ReadMapId(texts) ==
    /\ pc = "read_map_id"
    /\ \E raw \in texts :
          IF raw = ReadError
          THEN Fail(<<"failed to read beatmap id">>) /\ UNCHANGED map_id
          ELSE IF ~ParseU32(Trim(raw)).ok
          THEN Fail(<<"beatmap id must be an integer">>) /\ UNCHANGED map_id
          ELSE /\ map_id' = ParseU32(Trim(raw)).val
               /\ pc' = "read_mods"
               /\ UNCHANGED err
    /\ UNCHANGED <<raw_texts, api_mode, selected, mod_bits, score_input_mode,
                   accuracy, combo_opt, counts_opt, perf, new_play_pp,
                   current_scores, current_pps, old_total_pp, new_total_pp, gain>>

\* line 88: read_mods_for_mode(api_mode), sels[mode] the selections the
\* MultiSelect can return for the mode
ReadModsForMode(sels) ==
    /\ pc = "read_mods"
    /\ \/ /\ \E sel \in sels[api_mode] :
                /\ selected' = sel
                /\ mod_bits' = FoldBits(sel, 1, 0)
          /\ pc' = "read_score_input_mode"
          /\ UNCHANGED err
       \/ /\ Fail(<<"failed to run mods multiselect">>)
          /\ UNCHANGED <<selected, mod_bits>>
    /\ UNCHANGED <<raw_texts, api_mode, map_id, score_input_mode,
                   accuracy, combo_opt, counts_opt, perf, new_play_pp,
                   current_scores, current_pps, old_total_pp, new_total_pp, gain>>

\* line 90: read_score_input_mode, a failed Select counting as Simple
ReadScoreInputMode ==
    /\ pc = "read_score_input_mode"
    /\ \E run \in {"Simple", "Detailed", "Err"} :
          score_input_mode' = IF run = "Err" THEN "Simple" ELSE run
    /\ pc' = "read_score"
    /\ UNCHANGED <<raw_texts, err, api_mode, map_id, selected, mod_bits,
                   accuracy, combo_opt, counts_opt, perf, new_play_pp,
                   current_scores, current_pps, old_total_pp, new_total_pp, gain>>

\* lines 92-95 on the result r of the reader
BindScoreInput(r) ==
    IF r.ok
    THEN /\ accuracy' = r.val.accuracy
         /\ combo_opt' = r.val.combo
         /\ counts_opt' = r.val.counts
         /\ pc' = "download"
         /\ UNCHANGED err
    ELSE /\ Fail(r.err)
         /\ UNCHANGED <<accuracy, combo_opt, counts_opt>>

\* line 94
ReadSimple(acc_texts, miss_texts, combo_texts) ==
    /\ pc = "read_score"
    /\ score_input_mode = "Simple"
    /\ \E acc_raw \in acc_texts, misses_raw \in miss_texts, combo_raw \in combo_texts :
          /\ BindScoreInput(ReadSimpleScore(acc_raw, misses_raw, combo_raw))
          /\ raw_texts' = PromptedSimple(acc_raw, misses_raw, combo_raw)
    /\ UNCHANGED <<api_mode, map_id, selected, mod_bits, score_input_mode,
                   perf, new_play_pp, current_scores, current_pps,
                   old_total_pp, new_total_pp, gain>>

\* line 93
ReadDetailed(count_texts, combo_texts) ==
    /\ pc = "read_score"
    /\ score_input_mode = "Detailed"
    /\ \E raws \in [1..Len(CountLabels(api_mode)) -> count_texts],
          combo_raw \in combo_texts :
          /\ BindScoreInput(ReadDetailedJudgements(api_mode, raws, combo_raw))
          /\ raw_texts' = PromptedDetailed(api_mode, raws, combo_raw)
    /\ UNCHANGED <<api_mode, map_id, selected, mod_bits, score_input_mode,
                   perf, new_play_pp, current_scores, current_pps,
                   old_total_pp, new_total_pp, gain>>

\* lines 97-99
DownloadOsuFile ==
    /\ pc = "download"
    /\ \/ pc' = "parse" /\ UNCHANGED err
       \/ Fail(<<"failed to download .osu for beatmap">>)
    /\ UNCHANGED <<raw_texts, api_mode, map_id, selected, mod_bits, score_input_mode,
                   accuracy, combo_opt, counts_opt, perf, new_play_pp,
                   current_scores, current_pps, old_total_pp, new_total_pp, gain>>

\* line 101
ParseBeatmap ==
    /\ pc = "parse"
    /\ \/ pc' = "suspicion" /\ UNCHANGED err
       \/ Fail(<<"failed to parse .osu file">>)
    /\ UNCHANGED <<raw_texts, api_mode, map_id, selected, mod_bits, score_input_mode,
                   accuracy, combo_opt, counts_opt, perf, new_play_pp,
                   current_scores, current_pps, old_total_pp, new_total_pp, gain>>

\* lines 103-105
CheckSuspicion ==
    /\ pc = "suspicion"
    /\ \/ pc' = "build" /\ UNCHANGED err
       \/ Fail(<<"beatmap is suspicious">>)
    /\ UNCHANGED <<raw_texts, api_mode, map_id, selected, mod_bits, score_input_mode,
                   accuracy, combo_opt, counts_opt, perf, new_play_pp,
                   current_scores, current_pps, old_total_pp, new_total_pp, gain>>

\* lines 107-119
Build ==
    /\ pc = "build"
    /\ perf' = BuildPerformance(mod_bits, api_mode, accuracy, combo_opt, counts_opt)
    /\ pc' = "calculate"
    /\ UNCHANGED <<raw_texts, err, api_mode, map_id, selected, mod_bits, score_input_mode,
                   accuracy, combo_opt, counts_opt, new_play_pp,
                   current_scores, current_pps, old_total_pp, new_total_pp, gain>>

-----------------------------------------------------------------------------
(***************************************************************************)
(* The aggregation steps of main (lines 121-141).                          *)
(***************************************************************************)

\* .limit(100) of fetch_user_best_scores
Limit == 100

\* lengths of the short histories
MaxShort == 3

\* the pp field of a fetched score: Option<f32>
ScorePps == {None, Some(0), Some(150), Some(200), Some(250)}
LongPps == {150, 250}

ShortHistories == UNION {[1..n -> ScorePps] : n \in 0..MaxShort}

\* histories that fill the window, or miss it by one
LongHistories ==
    {[i \in 1..n |-> IF i % 2 = 0 THEN Some(even) ELSE Some(odd)] :
        n \in {Limit - 1, Limit}, even \in LongPps, odd \in LongPps}

Histories == ShortHistories \cup LongHistories

\* what perf.calculate().pp() can return
NewPlayPps == {0, 100, 200, 300}

\* a collection that keeps an absent pp as the value 0 instead of dropping it
MapPpOrZero(scores, lo, hi) ==
    <<>> \o [i \in 1..(hi - lo + 1) |->
                IF IsSome(scores[lo + i - 1]) THEN Unwrap(scores[lo + i - 1]) ELSE 0]

RECURSIVE FilterMapPp(_, _, _)
\* the pp values present among scores[lo..hi], in order
FilterMapPp(scores, lo, hi) ==
    IF lo > hi THEN <<>>
    ELSE IF lo = hi
         THEN IF IsSome(scores[lo]) THEN <<Unwrap(scores[lo])>> ELSE <<>>
    ELSE LET fmid == (lo + hi) \div 2
         IN  FilterMapPp(scores, lo, fmid) \o FilterMapPp(scores, fmid + 1, hi)

\* current_scores.iter().filter_map(|s| s.pp).map(|pp| pp as f64).collect()
CollectPps(scores) == FilterMapPp(scores, 1, Len(scores))

\* lines 121-122
Calculate(pps) ==
    /\ pc = "calculate"
    /\ \E pp \in pps : new_play_pp' = pp
    /\ pc' = "fetch"
    /\ UNCHANGED <<raw_texts, err, api_mode, map_id, selected, mod_bits, score_input_mode,
                   accuracy, combo_opt, counts_opt, perf, current_scores,
                   current_pps, old_total_pp, new_total_pp, gain>>

\* line 127
FetchUserBestScores(histories) ==
    /\ pc = "fetch"
    /\ \/ /\ \E scores \in histories : current_scores' = scores
          /\ pc' = "collect"
          /\ UNCHANGED err
       \/ /\ Fail(<<"failed to fetch user top scores">>)
          /\ UNCHANGED current_scores
    /\ UNCHANGED <<raw_texts, api_mode, map_id, selected, mod_bits, score_input_mode,
                   accuracy, combo_opt, counts_opt, perf, new_play_pp,
                   current_pps, old_total_pp, new_total_pp, gain>>

\* lines 129-133
Collect ==
    /\ pc = "collect"
    /\ current_pps' = CollectPps(current_scores)
    /\ pc' = "old_total"
    /\ UNCHANGED <<raw_texts, err, api_mode, map_id, selected, mod_bits, score_input_mode,
                   accuracy, combo_opt, counts_opt, perf, new_play_pp,
                   current_scores, old_total_pp, new_total_pp, gain>>

\* lines 135-136
OldTotal ==
    /\ pc = "old_total"
    /\ current_pps' = SortDesc(current_pps)
    /\ old_total_pp' = WeightedTotalPp(current_pps')
    /\ pc' = "new_total"
    /\ UNCHANGED <<raw_texts, err, api_mode, map_id, selected, mod_bits, score_input_mode,
                   accuracy, combo_opt, counts_opt, perf, new_play_pp,
                   current_scores, new_total_pp, gain>>

\* lines 138-141
NewTotal ==
    /\ pc = "new_total"
    /\ current_pps' = SortDesc(Append(current_pps, new_play_pp))
    /\ new_total_pp' = WeightedTotalPp(current_pps')
    /\ gain' = Sub(new_total_pp', old_total_pp)
    /\ pc' = "done"
    /\ UNCHANGED <<raw_texts, err, api_mode, map_id, selected, mod_bits, score_input_mode,
                   accuracy, combo_opt, counts_opt, perf, new_play_pp,
                   current_scores, old_total_pp>>

\* weighted_total_pp on its own: any list, also longer than main passes
MaxExtra == 2
ExtraPps == {100, 150}
LongLists ==
    {[i \in 1..n |-> IF i % 2 = 0 THEN even ELSE odd] :
        n \in {Window - 1, Window}, even \in LongPps, odd \in LongPps}
ExtraLists == UNION {[1..n -> ExtraPps] : n \in 0..MaxExtra}
TotalInputs ==
    {l \o e : l \in LongLists, e \in ExtraLists} \cup ExtraLists

-----------------------------------------------------------------------------
(***************************************************************************)
(* The specifications.  Spec is the whole run of main on a few inputs per  *)
(* step.  SpecMods, SpecJudge and SpecAgg are a stretch of the run each,   *)
(* on many inputs: up to the mods, from there to the calculator, and from  *)
(* the calculator on.  SpecTotal is the sort and weighted_total_pp alone.  *)
(***************************************************************************)

ACC_TEXTS ==
    {<<"9", "8", ".", "5">>, <<" ", "1", "0", "0", " ">>, <<"0">>,
     <<"-", "5">>, <<"1", "5", "0">>, <<"1", "e", "2">>, <<".", "5">>,
     <<"N", "a", "N">>, <<"i", "n", "f">>, <<"-", "i", "n", "f">>,
     <<"+", "I", "n", "f", "i", "n", "i", "t", "y">>, <<"a", "b", "c">>,
     <<>>, <<".">>, ReadError}
MISS_TEXTS ==
    {<<"0">>, <<" ", "3", " ">>, <<"+", "3">>, <<"-", "1">>, <<>>, <<"x">>,
     ReadError}
COMBO_TEXTS ==
    {<<>>, <<" ">>, <<"2", "0", "0">>, <<"x">>, ReadError}
COUNT_TEXTS ==
    {<<"0">>, <<"5", "0">>, <<"1", "0", "0">>, <<"5", "0", "0">>, <<"x">>}
MAP_ID_TEXTS ==
    {<<"4", "2">>, <<"x">>, ReadError}

\* the few inputs of Spec
FewSelections(mode) ==
    {<<>>} \cup {<<i>> : i \in {k \in Offered(mode) : MODS_LAZER[k].acronym \in {"HD", "FL"}}}
FEW_ACC_TEXTS ==
    {<<"9", "8", ".", "5">>, <<"N", "a", "N">>, <<"a", "b", "c">>}
FEW_COUNT_TEXTS ==
    {<<"1", "0">>, <<"x">>}
FEW_COMBO_TEXTS ==
    {<<>>, <<" ">>, <<"2", "0", "0">>, <<"x">>}
FewNewPlayPps == {100, 300}
FewHistories ==
    {<<>>, <<None>>, <<Some(250), Some(200), Some(150)>>}

Init ==
    /\ pc = "start"
    /\ err = None
    /\ api_mode = Unset
    /\ map_id = Unset
    /\ selected = Unset
    /\ mod_bits = Unset
    /\ score_input_mode = Unset
    /\ raw_texts = Unset
    /\ accuracy = Unset
    /\ combo_opt = Unset
    /\ counts_opt = Unset
    /\ perf = Unset
    /\ new_play_pp = Unset
    /\ current_scores = Unset
    /\ current_pps = Unset
    /\ old_total_pp = Unset
    /\ new_total_pp = Unset
    /\ gain = Unset

Next ==
    \/ Setup
    \/ ReadMode
    \/ ReadMapId(MAP_ID_TEXTS)
    \/ ReadModsForMode([mode \in Modes |-> FewSelections(mode)])
    \/ ReadScoreInputMode
    \/ ReadSimple(FEW_ACC_TEXTS, FEW_COUNT_TEXTS, FEW_COMBO_TEXTS)
    \/ ReadDetailed(FEW_COUNT_TEXTS, FEW_COMBO_TEXTS)
    \/ DownloadOsuFile
    \/ ParseBeatmap
    \/ CheckSuspicion
    \/ Build
    \/ Calculate(FewNewPlayPps)
    \/ FetchUserBestScores(FewHistories)
    \/ Collect
    \/ OldTotal
    \/ NewTotal

Spec == Init /\ [][Next]_vars

\* main up to the mods
NextMods ==
    \/ Setup
    \/ ReadMode
    \/ ReadMapId(MAP_ID_TEXTS)
    \/ ReadModsForMode([mode \in Modes |-> Selections(mode)])

SpecMods == Init /\ [][NextMods]_vars

\* main with the mods read: any mode, no mods
InitJudge ==
    /\ pc = "read_score_input_mode"
    /\ err = None
    /\ api_mode \in Modes
    /\ map_id = 42
    /\ selected = <<>>
    /\ mod_bits = 0
    /\ score_input_mode = Unset
    /\ raw_texts = Unset
    /\ accuracy = Unset
    /\ combo_opt = Unset
    /\ counts_opt = Unset
    /\ perf = Unset
    /\ new_play_pp = Unset
    /\ current_scores = Unset
    /\ current_pps = Unset
    /\ old_total_pp = Unset
    /\ new_total_pp = Unset
    /\ gain = Unset

NextJudge ==
    \/ ReadScoreInputMode
    \/ ReadSimple(ACC_TEXTS, MISS_TEXTS, COMBO_TEXTS)
    \/ ReadDetailed(COUNT_TEXTS, COMBO_TEXTS)
    \/ DownloadOsuFile
    \/ ParseBeatmap
    \/ CheckSuspicion
    \/ Build

SpecJudge == InitJudge /\ [][NextJudge]_vars

\* main with the calculator built: Standard, no mods, Simple style with
\* accuracy 98.5, no miss, no combo
InitAgg ==
    /\ pc = "calculate"
    /\ err = None
    /\ api_mode = "Osu"
    /\ map_id = 42
    /\ selected = <<>>
    /\ mod_bits = 0
    /\ score_input_mode = "Simple"
    /\ raw_texts = <<<<"9", "8", ".", "5">>, <<"0">>, <<>>>>
    /\ accuracy = Some(<<F64("finite", FALSE, 985, 1), 0>>)
    /\ combo_opt = None
    /\ counts_opt = None
    /\ perf = BuildPerformance(0, "Osu", accuracy, None, None)
    /\ new_play_pp = Unset
    /\ current_scores = Unset
    /\ current_pps = Unset
    /\ old_total_pp = Unset
    /\ new_total_pp = Unset
    /\ gain = Unset

NextAgg ==
    \/ Calculate(NewPlayPps)
    \/ FetchUserBestScores(Histories)
    \/ Collect
    \/ OldTotal
    \/ NewTotal

SpecAgg == InitAgg /\ [][NextAgg]_vars

\* a call of the sort and weighted_total_pp on any list, then a second
\* call with one more value pushed
InitTotal ==
    /\ pc = "old_total"
    /\ err = None
    /\ api_mode = "Osu"
    /\ map_id = 42
    /\ selected = <<>>
    /\ mod_bits = 0
    /\ score_input_mode = "Simple"
    /\ raw_texts = <<<<"9", "8", ".", "5">>, <<"0">>, <<>>>>
    /\ accuracy = Some(<<F64("finite", FALSE, 985, 1), 0>>)
    /\ combo_opt = None
    /\ counts_opt = None
    /\ perf = BuildPerformance(0, "Osu", accuracy, None, None)
    /\ new_play_pp \in ExtraPps
    /\ current_scores = Unset
    /\ current_pps \in TotalInputs
    /\ old_total_pp = Unset
    /\ new_total_pp = Unset
    /\ gain = Unset

NextTotal == OldTotal \/ NewTotal

SpecTotal == InitTotal /\ [][NextTotal]_vars

-----------------------------------------------------------------------------
(***************************************************************************)
(* Properties of the aggregation.                                          *)
(***************************************************************************)

\* the list s in descending order, defined from the multiset of its values:
\* rank i holds the value v with fewer than i values above it and at least
\* i values at or above it
Ranked(s) ==
    LET above(v) == Cardinality({k \in 1..Len(s) : s[k] > v})
        atleast(v) == Cardinality({k \in 1..Len(s) : s[k] >= v})
    IN  [i \in 1..Len(s) |->
            CHOOSE v \in {s[k] : k \in 1..Len(s)} : above(v) < i /\ i <= atleast(v)]

RECURSIVE RefSum(_, _, _)
\* the sum of d[k] * 0.95^(k-1) over lo..hi, term by term
RefSum(d, lo, hi) ==
    IF lo > hi THEN Zero
    ELSE IF lo = hi THEN MulSmall(Powi95(lo - 1), d[lo])
    ELSE LET rmid == (lo + hi) \div 2
         IN  Add(RefSum(d, lo, rmid), RefSum(d, rmid + 1, hi))

\* the history main aggregates, and the list after the push
History == CollectPps(current_scores)
Pushed == Append(History, new_play_pp)

\* the weights are 1, 0.95, 0.95^2, ...: W[0] = 1 and 20 * W[i+1] = 19 * W[i]
WeightsGeometric ==
    /\ Powi95(0) = One
    /\ \A i \in 0..(Window - 2) :
           MulSmall(Powi95(i + 1), WeightDen) = MulSmall(Powi95(i), WeightNum)

\* C1: whatever the order of the input, the total is the sum over the ranks
\* i < min(n, 100) of s[i] * 0.95^i with s the input in descending order, a
\* function of the multiset of values, each duplicate weighted at its own rank
C1_RankWeightedTotal ==
    /\ WeightsGeometric
    /\ pc \in {"new_total", "done"} =>
           old_total_pp = RefSum(Ranked(History), 1, Min(Len(History), Window))
    /\ pc = "done" =>
           new_total_pp = RefSum(Ranked(Pushed), 1, Min(Len(Pushed), Window))

\* an unsorted history with a tie has been aggregated
C1_Witness ==
    /\ pc = "done"
    /\ \E i, j \in 1..Len(History) : i < j /\ History[i] < History[j]
    /\ \E i, j \in 1..Len(History) : i < j /\ History[i] = History[j]
    /\ old_total_pp # Zero

Scenario250 ==
    /\ pc = "done"
    /\ History = <<250, 200, 150>>
    /\ new_play_pp = 300

\* C2 as stated: old total 575.375, new total 846.5125, gain 271.1375
C2_AsStated ==
    Scenario250 =>
        /\ old_total_pp = Dec(575375, 3)
        /\ new_total_pp = Dec(8465125, 4)
        /\ gain = [sign |-> 1, mag |-> Dec(2711375, 4)]

\* C2: for the history [250, 200, 150] and a new play of 300 the old total is
\* 575.375, the new total over [300, 250, 200, 150] is 846.60625 and the gain
\* is 271.23125
C2_Scenario ==
    Scenario250 =>
        /\ old_total_pp = Dec(575375, 3)
        /\ current_pps = <<300, 250, 200, 150>>
        /\ new_total_pp = Dec(84660625, 5)
        /\ gain = [sign |-> 1, mag |-> Dec(27123125, 5)]

C2_Witness == Scenario250 /\ gain.sign = 1

\* a 0 has been pushed onto a non-empty history of positive values
ZeroOntoPositives ==
    /\ pc = "done"
    /\ new_play_pp = 0
    /\ History # <<>>
    /\ \A i \in 1..Len(History) : History[i] > 0

\* C3 as stated: the gain is >= 0, and 0 only if the history holds at least
\* 100 values
C3_AsStated ==
    ZeroOntoPositives =>
        /\ gain.sign >= 0
        /\ gain.sign = 0 => Len(History) >= Window

\* C3: pushing a 0 onto a non-empty history of positive values leaves the
\* total as it was, gain = 0, whatever rank the 0 takes, inside the window
\* or beyond it
C3_ZeroGainIsZero ==
    ZeroOntoPositives =>
        /\ gain = [sign |-> 0, mag |-> Zero]
        /\ new_total_pp = old_total_pp

\* the 0 ranks inside the window
C3_Witness ==
    /\ ZeroOntoPositives
    /\ Len(History) < Window
    /\ current_pps[Len(current_pps)] = 0

\* the new play is above every value of a non-empty history
AboveMaximum ==
    /\ pc = "done"
    /\ History # <<>>
    /\ \A i \in 1..Len(History) : new_play_pp > History[i]

\* C4: a new play strictly above the maximum of a non-empty history gives
\* gain > 0, also when the history fills the window and its lowest value is
\* pushed out
C4_AboveMaxGains ==
    AboveMaximum => gain.sign = 1 /\ current_pps[1] = new_play_pp

\* the history fills the window and the new play is above its maximum
C4_Witness ==
    /\ AboveMaximum
    /\ Len(History) = Window
    /\ Len(current_pps) = Window + 1

\* C5: the total depends on the 100 largest values only: with at least 100
\* values, values appended at or below the 100th rank leave it unchanged;
\* with fewer than 100 values every value is weighted
C5_TopWindowOnly ==
    /\ pc = "new_total" =>
           old_total_pp = RefSum(Ranked(current_pps), 1, Min(Len(current_pps), Window))
    /\ pc = "done" =>
           /\ new_total_pp = RefSum(Ranked(current_pps), 1, Min(Len(current_pps), Window))
           /\ (Len(current_pps) > Window /\ Ranked(current_pps)[Window + 1] >= new_play_pp)
                  => new_total_pp = old_total_pp
           /\ Len(current_pps) <= Window => new_total_pp = TakeAllTotal(current_pps)

\* more than 100 values, positive values appended below the window
C5_Witness ==
    /\ pc = "done"
    /\ Len(current_pps) > Window + 1
    /\ current_pps[Window + 1] > 0
    /\ new_play_pp > 0
    /\ new_total_pp = old_total_pp

-----------------------------------------------------------------------------
(***************************************************************************)
(* Properties of the resolved bitmask.                                     *)
(***************************************************************************)

ModsRead == pc = "read_score_input_mode"

\* the catalog entries of the selection
SelectedEntries == {MODS_LAZER[selected[k]] : k \in 1..Len(selected)}

\* C6: the bitmask is the OR of the bits of the selected entries whose modes
\* contain the mode, and no entry whose modes exclude the mode is selected:
\* bit 12 only in Standard, bits 15-19 and 24 only in Mania, bit 10 never in
\* Taiko
C6_OnlyOfferedContribute ==
    ModsRead =>
        /\ \A m \in SelectedEntries : api_mode \in m.modes
        /\ \A p \in BitPositions :
               Bit(mod_bits, p) <=>
                   \E m \in SelectedEntries : api_mode \in m.modes /\ Bit(m.bits, p)
        /\ Bit(mod_bits, 12) => api_mode = "Osu"
        /\ \A p \in {15, 16, 17, 18, 19, 24} : Bit(mod_bits, p) => api_mode = "Mania"
        /\ api_mode = "Taiko" => ~Bit(mod_bits, 10)

\* a Mania selection with a key-count bit and the bit of FL
C6_Witness ==
    /\ ModsRead
    /\ api_mode = "Mania"
    /\ Bit(mod_bits, 24)
    /\ Bit(mod_bits, 10)

RECURSIVE MaskOfSet(_, _)
\* the mask, from bit p up, of a set of acronyms: bit q is set when an
\* entry of the catalog with an acronym of the set has it
MaskOfSet(acronyms, p) ==
    IF p \notin BitPositions THEN 0
    ELSE (IF \E i \in 1..Len(MODS_LAZER) :
                 MODS_LAZER[i].acronym \in acronyms /\ Bit(MODS_LAZER[i].bits, p)
          THEN 2 ^ p ELSE 0)
         + MaskOfSet(acronyms, p + 1)

\* C7: the bitmask is a function of the set of selected acronyms: the order
\* and the repeats of the selection do not matter, and the empty selection
\* gives 0
C7_FunctionOfSet ==
    ModsRead =>
        /\ mod_bits = MaskOfSet({m.acronym : m \in SelectedEntries}, 0)
        /\ selected = <<>> => mod_bits = 0

\* a selection out of catalog order whose entries share a bit
C7_Witness ==
    /\ ModsRead
    /\ \E i, j \in 1..Len(selected) :
           /\ i < j
           /\ selected[i] > selected[j]
           /\ \E p \in BitPositions :
                  /\ Bit(MODS_LAZER[selected[i]].bits, p)
                  /\ Bit(MODS_LAZER[selected[j]].bits, p)

-----------------------------------------------------------------------------
(***************************************************************************)
(* Properties of the judgement input.                                      *)
(***************************************************************************)

\* main has the three values of the reader
ScoreRead == pc \in {"download", "parse", "suspicion", "build", "calculate"}

\* the judgement fields the calculator has been given
FieldsSet(p) == {f \in JudgementFields : IsSome(p[f])}

\* the table of C8: for each mode, the field of the record and the field of
\* the calculator it goes to
MappingTable(mode) ==
    CASE mode = "Osu" ->
             {<<"n300", "n300">>, <<"n100", "n100">>, <<"n50", "n50">>,
              <<"misses", "misses">>}
      [] mode = "Taiko" ->
             {<<"n300", "n300">>, <<"n100", "n100">>, <<"misses", "misses">>}
      [] mode = "Catch" ->
             {<<"fruits", "n300">>, <<"droplets", "large_tick_hits">>,
              <<"tiny_droplets", "small_tick_hits">>,
              <<"tiny_droplet_misses", "n_katu">>, <<"misses", "misses">>}
      [] mode = "Mania" ->
             {<<"n320", "n_geki">>, <<"n300", "n300">>, <<"n200", "n_katu">>,
              <<"n100", "n100">>, <<"n50", "n50">>, <<"misses", "misses">>}

CatchExample ==
    [variant |-> "Catch", fruits |-> 500, droplets |-> 100, tiny_droplets |-> 50,
     tiny_droplet_misses |-> 0, misses |-> 0]

\* C8: the calculator's judgement fields are those the table of the record's
\* mode names, each holding the count of its source field, and no other
\* judgement field is set; the Catch record {500, 100, 50, 0, 0} gives n300
\* 500, large_tick_hits 100, small_tick_hits 50, n_katu 0, misses 0
C8_DetailedMapping ==
    (pc = "calculate" /\ IsSome(counts_opt)) =>
        LET d == Unwrap(counts_opt)
        IN  /\ \A e \in MappingTable(d.variant) : perf[e[2]] = Some(d[e[1]])
            /\ FieldsSet(perf) = {e[2] : e \in MappingTable(d.variant)}
            /\ d = CatchExample =>
                   /\ perf.n300 = Some(500)
                   /\ perf.large_tick_hits = Some(100)
                   /\ perf.small_tick_hits = Some(50)
                   /\ perf.n_katu = Some(0)
                   /\ perf.misses = Some(0)

\* the Catch record {500, 100, 50, 0, 0} has reached the calculator
C8_Witness ==
    /\ pc = "calculate"
    /\ counts_opt = Some(CatchExample)

\* C9: after a successful read exactly one of accuracy and counts_opt is
\* present: Simple gives the accuracy and misses and no counts, Detailed
\* gives counts of the variant of the mode and no accuracy, and the
\* calculator holds the accuracy with the misses or the counts, never both
C9_ExactlyOneVariant ==
    /\ ScoreRead =>
           /\ IsSome(accuracy) # IsSome(counts_opt)
           /\ score_input_mode = "Simple" => IsSome(accuracy) /\ counts_opt = None
           /\ score_input_mode = "Detailed" =>
                  /\ accuracy = None
                  /\ IsSome(counts_opt)
                  /\ Unwrap(counts_opt).variant = api_mode
    /\ pc = "calculate" =>
           /\ IsSome(perf.accuracy) <=> score_input_mode = "Simple"
           /\ IsSome(perf.accuracy) => FieldsSet(perf) = {"accuracy", "misses"}
           /\ IsSome(perf.n300) <=> score_input_mode = "Detailed"

\* a Detailed Mania record has reached the calculator
C9_Witness ==
    /\ pc = "calculate"
    /\ score_input_mode = "Detailed"
    /\ api_mode = "Mania"
    /\ IsSome(perf.n_geki)

\* C10 as stated: an accuracy read in Simple style is finite, and reaches
\* the calculator as read, out of range or not
C10_AsStated ==
    /\ (ScoreRead /\ score_input_mode = "Simple") => IsFinite(Unwrap(accuracy)[1])
    /\ (pc = "calculate" /\ score_input_mode = "Simple") =>
           perf.accuracy = Some(Unwrap(accuracy)[1])

\* an accuracy that is no number has reached the calculator
C10_Witness ==
    /\ pc = "calculate"
    /\ score_input_mode = "Simple"
    /\ perf.accuracy = Some(F64("nan", FALSE, 0, 0))


\* ---- error handling of the run (main, lines 88-141) ----

\* the prompts of the score reader in the order they are asked
ACCURACY_LABEL == "Accuracy in %"
ScoreLabels ==
    IF score_input_mode = "Simple"
    THEN <<ACCURACY_LABEL, "Number of misses", COMBO_LABEL>>
    ELSE Append(CountLabels(api_mode), COMBO_LABEL)

\* a combo text that stands for "no combo given": the empty text, or (when
\* trimmed is set) a text that is empty once its white space is trimmed
ComboAbsent(raw, trimmed) ==
    raw # ReadError /\ (IF trimmed THEN Trim(raw) = <<>> ELSE raw = <<>>)

\* the text given for a prompt is no number
NotANumber(label, raw) ==
    \/ raw = ReadError
    \/ IF label = ACCURACY_LABEL THEN ~ParseF64(Trim(raw)).ok
                                  ELSE ~ParseU32(Trim(raw)).ok

\* the text given for a prompt is a failure of the step
BadText(label, raw, trimmed) ==
    IF label = COMBO_LABEL
    THEN ~ComboAbsent(raw, trimmed) /\ NotANumber(label, raw)
    ELSE NotANumber(label, raw)

\* the error of the step that read a bad text
ErrorOf(label, raw) ==
    IF raw = ReadError
    THEN IF label = ACCURACY_LABEL THEN <<"failed to read accuracy">>
                                   ELSE <<"failed to read", label>>
    ELSE IF label = ACCURACY_LABEL
         THEN <<"accuracy must be a floating number like 98.5">>
         ELSE <<label, "must be an unsigned integer">>

\* nothing after the score input has run
NothingAfterInput ==
    /\ perf = Unset /\ new_play_pp = Unset
    /\ current_scores = Unset /\ current_pps = Unset
    /\ old_total_pp = Unset /\ new_total_pp = Unset /\ gain = Unset

\* the values bound from the texts are the numbers the texts spell
BoundAsTyped(trimmed) ==
    LET n     == Len(raw_texts)
        combo == IF ComboAbsent(raw_texts[n], trimmed) THEN None
                 ELSE Some(ParseU32(Trim(raw_texts[n])).val)
    IN  /\ combo_opt = combo
        /\ IF score_input_mode = "Simple"
           THEN /\ accuracy = Some(<<ParseF64(Trim(raw_texts[1])).val,
                                     ParseU32(Trim(raw_texts[2])).val>>)
                /\ counts_opt = None
           ELSE /\ accuracy = None
                /\ counts_opt = Some(DetailedJudgements(api_mode,
                        [i \in 1..(n - 1) |-> ParseU32(Trim(raw_texts[i])).val]))

\* the failures of the steps before the score input
EARLY_ERRORS ==
    {<<"failed to create osu! api v2 client">>, <<"failed to read username">>,
     <<"Failed to read gamemode from selection">>, <<"failed to read beatmap id">>,
     <<"beatmap id must be an integer">>, <<"failed to run mods multiselect">>}

\* the failures of the beatmap steps
BEATMAP_ERRORS ==
    {<<"failed to download .osu for beatmap">>, <<"failed to parse .osu file">>,
     <<"beatmap is suspicious">>}

\* the score reader has been called
InputWasRead ==
    \/ pc \in {"download", "parse", "suspicion", "build", "calculate", "fetch",
               "collect", "old_total", "new_total", "done"}
    \/ pc = "failed" /\ err \notin EARLY_ERRORS

\* a bad text ends the run at its prompt with its error, and good texts are
\* bound as typed
InputSurfaced(trimmed) ==
    InputWasRead =>
        LET n == Len(raw_texts)
            bad == {i \in 1..n : BadText(ScoreLabels[i], raw_texts[i], trimmed)}
        IN  /\ n \in 1..Len(ScoreLabels)
            /\ IF bad # {}
               THEN /\ bad = {n}
                    /\ pc = "failed"
                    /\ err = ErrorOf(ScoreLabels[n], raw_texts[n])
                    /\ accuracy = Unset /\ combo_opt = Unset /\ counts_opt = Unset
                    /\ NothingAfterInput
               ELSE /\ n = Len(ScoreLabels)
                    /\ BoundAsTyped(trimmed)

\* a failed beatmap step ends the run before the calculator is built
BeatmapSurfaced ==
    pc = "failed" /\ err \in BEATMAP_ERRORS => NothingAfterInput

\* a failed run has an error, no totals and no further step
FailedIsFinal ==
    pc = "failed" =>
        /\ err # None
        /\ old_total_pp = Unset /\ new_total_pp = Unset /\ gain = Unset
        /\ ~ENABLED Next

NoPpValues ==
    /\ pc \in {"collect", "old_total", "new_total", "done"}
    /\ \A i \in 1..Len(current_scores) : current_scores[i] = None

\* C12: a history that is empty, or whose scores all lack a pp value, is not
\* an error (from the calculation on, only the fetch itself fails): the
\* steps after the fetch go on, nothing is aggregated but the
\* new play, at rank 0 with weight 1.0, the old total is 0, the new total is
\* the pp of the new play and so is the gain (new play 100 gives 0, 100, 100)
C12_EmptyHistory ==
    /\ Powi95(0) = One
    /\ pc = "failed" => err = <<"failed to fetch user top scores">>
    /\ NoPpValues =>
           /\ pc = "old_total" => current_pps = <<>>
           /\ pc = "new_total" => current_pps = <<>> /\ old_total_pp = Zero
           /\ pc = "done" =>
                  /\ old_total_pp = Zero
                  /\ current_pps = <<new_play_pp>>
                  /\ new_total_pp = FromInt(new_play_pp)
                  /\ gain.mag = FromInt(new_play_pp)
                  /\ gain.sign = (IF new_play_pp > 0 THEN 1 ELSE 0)
                  /\ new_play_pp = 100 =>
                         /\ new_total_pp = Dec(100, 0)
                         /\ gain = [sign |-> 1, mag |-> Dec(100, 0)]

\* the run is done on an empty fetched list with a new play of 100
C12_Witness ==
    /\ pc = "done"
    /\ current_scores = <<>>
    /\ new_play_pp = 100
    /\ old_total_pp = Zero
    /\ gain.sign = 1


\* ---- distinguishable modifiers (MODS_LAZER, read_mods_for_mode) ----

\* the catalog index of an acronym
IndexOf(acronym) ==
    CHOOSE i \in 1..Len(MODS_LAZER) : MODS_LAZER[i].acronym = acronym

\* the entries of a mode that share a bit position: <<i, j, p>> with i
\* before j in the catalog, both offered for the mode, both carrying bit p
SharedBits(mode) ==
    {t \in Offered(mode) \X Offered(mode) \X BitPositions :
        /\ t[1] < t[2]
        /\ Bit(MODS_LAZER[t[1]].bits, t[3])
        /\ Bit(MODS_LAZER[t[2]].bits, t[3])}

\* the documented base/variant pairs: SD/PF on bit 5 and DT/NC on bit 6
DocumentedPairs ==
    {<<IndexOf("SD"), IndexOf("PF"), 5>>, <<IndexOf("DT"), IndexOf("NC"), 6>>}

\* the mask of the selection with entry i selected as well
MaskWith(i) == FoldBits(Append(selected, i), 1, 0)

\* entry i can be added to the selection: offered for the mode, not yet
\* selected, carrying bits
Addable(i) ==
    /\ i \in Offered(api_mode)
    /\ \A k \in 1..Len(selected) : selected[k] # i
    /\ MODS_LAZER[i].bits # 0

\* C13 as stated: adding a not yet selected modifier with bits to a
\* selection changes the mask, except SD added to a selection with PF and DT
\* added to one with NC; no bit position is shared by two entries of one
\* mode other than SD/PF (bit 5) and DT/NC (bit 6)
C13_AsStated ==
    /\ ModsRead =>
           \A i \in 1..Len(MODS_LAZER) :
               Addable(i) =>
                   \/ MaskWith(i) # mod_bits
                   \/ i = IndexOf("SD") /\ MODS_LAZER[IndexOf("PF")] \in SelectedEntries
                   \/ i = IndexOf("DT") /\ MODS_LAZER[IndexOf("NC")] \in SelectedEntries
    /\ \A mode \in Modes : SharedBits(mode) \subseteq DocumentedPairs

\* what holds of the catalog: besides the documented pairs, NC and AP share
\* bit 9 in Standard, and nothing else is shared in any mode
SharedInCatalog ==
    \A mode \in Modes :
        SharedBits(mode) =
            DocumentedPairs \cup
            (IF mode = "Osu" THEN {<<IndexOf("NC"), IndexOf("AP"), 9>>} ELSE {})

\* in Standard NC is selected and adding AP leaves the mask as it is
C13_Witness ==
    /\ ModsRead
    /\ api_mode = "Osu"
    /\ selected = <<IndexOf("NC")>>
    /\ Addable(IndexOf("AP"))
    /\ MaskWith(IndexOf("AP")) = mod_bits
    /\ SharedInCatalog

=============================================================================
